---- MODULE Spec2Model ----
(***************************************************************************)
(* Health insurance claim processor: the Run Coordinator                   *)
(* (services/claim_processor.py), the text extractor it calls              *)
(* (services/pdf_processor.py) and the agent pipeline it drives            *)
(* (agents/HealthInsuranceClaimProcessorAgent).                            *)
(*                                                                         *)
(* Encoding of Python values.  Every value held in a dict (a stage         *)
(* payload, None) is a TLA+ record, a dict is a function from key strings  *)
(* to such records, and a str is a sequence of tokens: "x in s" on strings *)
(* is token membership, which is exact as long as no token other than      *)
(* "timeout" has "timeout" as a substring.  Wall-clock values              *)
(* (processing_time, timestamp) are left out of the reports.               *)
(***************************************************************************)
EXTENDS Naturals, Sequences, FiniteSets, TLC

VARIABLES
    pc,               \* per run: the statement of process_claim the run is at
    files,            \* per run: the submitted batch (List[UploadFile])
    processed_files,  \* per run: the result of pdf_processor.process_files
    content,          \* per run: the new_message handed to the runner
    sessions,         \* session_service: session_id -> session.state
    pos,              \* per run: index of the SequentialAgent element being run
    stage,            \* per run, per stage: pending/running/done/empty/failed/cancelled
    report,           \* per run: the dict process_claim returned
    run_status,       \* per run: which return statement of process_claim was taken
    returned,         \* per run: how many times process_claim has returned
    main_agent        \* self.main_agent: the output_key of each agent of the
                      \* pipeline the service was built with (None: not built)

vars == <<pc, files, processed_files, content, sessions, pos, stage, report,
          run_status, returned, main_agent>>

(***************************************************************************)
(* Bounds of the model                                                     *)
(***************************************************************************)
MaxRuns == 1
MaxFiles == 2

Runs == 1..MaxRuns

(***************************************************************************)
(* Python None, as a value that can be compared with dicts and payloads    *)
(***************************************************************************)
None == [py |-> "None"]

Contains(s, tok) == \E i \in DOMAIN s : s[i] = tok

(***************************************************************************)
(* utils/config.py                                                         *)
(***************************************************************************)
\* allowed_extensions is a str, so "ext not in allowed_extensions" is a
\* substring test.
allowed_extensions == <<"p", "d", "f">>

IsSubstring(s, t) ==
    \E i \in 0..(Len(t) - Len(s)) : SubSeq(t, i + 1, i + Len(s)) = s

(***************************************************************************)
(* Uploaded files.  A file has a name (stem and the characters of its      *)
(* suffix after the dot), a size class, and the behaviour of pypdf on its  *)
(* bytes: whether PdfReader accepts them, and per page whether             *)
(* extract_text returns text, returns blank, or raises.                    *)
(***************************************************************************)
BillPdf    == [stem |-> "bill", ext |-> <<"p", "d", "f">>, big |-> FALSE,
               reader_ok |-> TRUE, pages |-> <<"text", "raise", "blank">>]
TimeoutPdf == [stem |-> "timeout", ext |-> <<"p", "d", "f">>, big |-> FALSE,
               reader_ok |-> FALSE, pages |-> <<>>]
NotesTxt   == [stem |-> "notes", ext |-> <<"t", "x", "t">>, big |-> FALSE,
               reader_ok |-> TRUE, pages |-> <<"text">>]
HugePdf    == [stem |-> "huge", ext |-> <<"p", "d", "f">>, big |-> TRUE,
               reader_ok |-> TRUE, pages |-> <<"text">>]

UploadFiles == {BillPdf, TimeoutPdf, NotesTxt, HugePdf}

Batches == UNION {[1..n -> UploadFiles] : n \in 0..MaxFiles}

(***************************************************************************)
(* Exceptions: a class and the tokens of str(e)                            *)
(***************************************************************************)
NoExc == [cls |-> "none", msg |-> <<>>]

\* The classes an "except <handler>" clause catches.
Bases(cls) ==
    CASE cls = "HTTPException"   -> {"HTTPException", "Exception", "BaseException"}
      [] cls = "KeyError"        -> {"KeyError", "LookupError", "Exception", "BaseException"}
      [] cls = "ValidationError" -> {"ValidationError", "ValueError", "Exception", "BaseException"}
      [] cls = "ValueError"      -> {"ValueError", "Exception", "BaseException"}
      [] cls = "RuntimeError"    -> {"RuntimeError", "Exception", "BaseException"}
      [] cls = "TimeoutError"    -> {"TimeoutError", "Exception", "BaseException"}
      [] OTHER                   -> {cls, "BaseException"}

(***************************************************************************)
(* services/pdf_processor.py                                               *)
(***************************************************************************)
FileName(f) == IF f.ext = <<>> THEN <<f.stem>> ELSE <<f.stem, ".">> \o f.ext

\* validate_files: the HTTPException it raises, or NoExc.
RECURSIVE ValidateFrom(_, _)
ValidateFrom(fs, i) ==
    IF i > Len(fs) THEN NoExc
    ELSE LET f == fs[i] IN
         IF f.stem = "" /\ f.ext = <<>>
         THEN [cls |-> "HTTPException", msg |-> <<"400:", "File must have a name">>]
         ELSE IF ~IsSubstring(f.ext, allowed_extensions)
         THEN [cls |-> "HTTPException",
               msg |-> <<"400:", "File">> \o FileName(f)
                       \o <<"has invalid extension. Allowed:">> \o allowed_extensions]
         ELSE IF f.big
         THEN [cls |-> "HTTPException",
               msg |-> <<"400:", "File">> \o FileName(f)
                       \o <<"exceeds maximum size">>]
         ELSE ValidateFrom(fs, i + 1)

validate_files(fs) ==
    IF Len(fs) = 0
    THEN [cls |-> "HTTPException", msg |-> <<"400:", "No files provided">>]
    ELSE ValidateFrom(fs, 1)

\* (variant: the first page that raises ends the loop)
RECURSIVE PageText_Abort(_, _)
PageText_Abort(pages, n) ==
    IF n > Len(pages) \/ pages[n] = "raise" THEN <<>>
    ELSE (IF pages[n] = "text" THEN <<[page |-> n, kind |-> "text"]>> ELSE <<>>)
         \o PageText_Abort(pages, n + 1)

\* The page loop of extract_text_from_pdf: one entry per page that yields
\* text or raises; a blank page adds nothing.
RECURSIVE PageText(_, _)
PageText(pages, n) ==
    IF n > Len(pages) THEN <<>>
    ELSE (CASE pages[n] = "text"  -> <<[page |-> n, kind |-> "text"]>>
            [] pages[n] = "raise" -> <<[page |-> n, kind |-> "(extraction failed)"]>>
            [] OTHER              -> <<>>)
         \o PageText(pages, n + 1)

\* (variant: the reader's exception leaves extract_text_from_pdf as it is)
extract_text_from_pdf_unwrapped(f) ==
    IF ~f.reader_ok
    THEN [exc  |-> [cls |-> "PdfReadError", msg |-> <<"invalid pdf">>],
          text |-> <<>>]
    ELSE [exc  |-> NoExc,
          text |-> <<[page |-> 1, kind |-> "text"]>>]

\* extract_text_from_pdf: every exception of the outer try is re-raised as an
\* HTTPException(500).
extract_text_from_pdf(f) ==
    IF ~f.reader_ok
    THEN [exc  |-> [cls |-> "HTTPException",
                    msg |-> <<"500:", "Failed to extract text from">>
                            \o FileName(f) \o <<":", "invalid pdf">>],
          text |-> <<>>]
    ELSE LET t == PageText(f.pages, 1) IN
         [exc  |-> NoExc,
          text |-> IF t = <<>>
                   THEN <<[page |-> 0, kind |-> "[No readable text found]"]>>
                   ELSE t]

\* The loop of process_files over the batch: the file_info list, or the
\* exception that leaves the loop.
RECURSIVE ProcessFrom(_, _, _)
ProcessFrom(fs, i, acc) ==
    IF i > Len(fs) THEN [exc |-> NoExc, list |-> acc]
    ELSE LET r == extract_text_from_pdf(fs[i]) IN
         IF r.exc.cls = "none"
         THEN ProcessFrom(fs, i + 1,
                  Append(acc, [filename |-> FileName(fs[i]),
                               text_content |-> r.text,
                               status |-> "success",
                               error |-> <<>>]))
         ELSE IF "HTTPException" \in Bases(r.exc.cls)
         THEN [exc |-> r.exc, list |-> acc]
         ELSE ProcessFrom(fs, i + 1,
                  Append(acc, [filename |-> FileName(fs[i]),
                               text_content |-> <<>>,
                               status |-> "failed",
                               error |-> r.exc.msg]))

process_files(fs) ==
    LET v == validate_files(fs) IN
    IF v.cls # "none" THEN [exc |-> v, list |-> <<>>]
    ELSE LET p == ProcessFrom(fs, 1, <<>>) IN
         IF p.exc.cls # "none" THEN p
         ELSE IF \A i \in DOMAIN p.list : p.list[i].status # "success"
         THEN [exc  |-> [cls |-> "HTTPException",
                         msg |-> <<"500:", "Failed to process any of the provided files">>],
               list |-> <<>>]
         ELSE p

(***************************************************************************)
(* The pipeline: agents/HealthInsuranceClaimProcessorAgent                 *)
(***************************************************************************)
Agents == {"DocumentAgent", "BillProcessingAgent", "DischargeProcessingAgent",
           "ClaimDataAgent", "ValidationAgent", "ClaimDecisionAgent"}

\* (variant: the discharge agent stores under the bill agent's key)
output_key_shared(a) ==
    CASE a = "DocumentAgent"            -> "documents"
      [] a = "BillProcessingAgent"      -> "bill_data"
      [] a = "DischargeProcessingAgent" -> "bill_data"
      [] a = "ClaimDataAgent"           -> "claim_data"
      [] a = "ValidationAgent"          -> "validation_results"
      [] a = "ClaimDecisionAgent"       -> "claim_decision"

\* LlmAgent(output_key=...)
output_key(a) ==
    CASE a = "DocumentAgent"            -> "documents"
      [] a = "BillProcessingAgent"      -> "bill_data"
      [] a = "DischargeProcessingAgent" -> "discharge_data"
      [] a = "ClaimDataAgent"           -> "claim_data"
      [] a = "ValidationAgent"          -> "validation_results"
      [] a = "ClaimDecisionAgent"       -> "claim_decision"

\* (variant: no instruction has a placeholder)
instruction_keys_none(a) == {}

\* The {key} placeholders of each agent's instruction: the runner fills them
\* from session.state when the agent starts, and a placeholder whose key is
\* not in the state raises KeyError.
instruction_keys(a) ==
    CASE a = "DocumentAgent"            -> {}
      [] a = "BillProcessingAgent"      -> {"documents"}
      [] a = "DischargeProcessingAgent" -> {"documents"}
      [] a = "ClaimDataAgent"           -> {"documents"}
      [] a = "ValidationAgent"          -> {"documents", "bill_data", "discharge_data",
                                            "claim_data"}
      [] a = "ClaimDecisionAgent"       -> {"documents", "bill_data", "discharge_data",
                                            "claim_data", "validation_results"}

\* ClaimDecision.status: Literal["approved", "rejected", "pending"]
DecisionStatuses == {"approved", "rejected", "pending"}

\* The payloads an agent can store under its output_key: what passes its
\* output_schema.
Payloads(a) ==
    IF a = "ClaimDecisionAgent"
    THEN {[status |-> st, by |-> a] : st \in DecisionStatuses}
    ELSE {[status |-> "n/a", by |-> a]}

\* The packaged pipeline's ClaimDecision declares status: str, so any string
\* passes its output_schema; "denied" stands for the strings other than the
\* three.
FreeDecisionStatuses == DecisionStatuses \cup {"denied"}

PackagedPayloads(a) ==
    IF a = "ClaimDecisionAgent"
    THEN {[status |-> st, by |-> a] : st \in FreeDecisionStatuses}
    ELSE {[status |-> "n/a", by |-> a]}

\* ParallelAgent(sub_agents=[bill, discharge, claim_data])
parallel_process_agent ==
    {"BillProcessingAgent", "DischargeProcessingAgent", "ClaimDataAgent"}

\* SequentialAgent(sub_agents=[classify, parallel, validate, decide]); each
\* element is the set of agents it runs concurrently.
sub_agents ==
    << {"DocumentAgent"}, parallel_process_agent, {"ValidationAgent"},
       {"ClaimDecisionAgent"} >>

\* (variant: the join of an element returns at the first agent to finish)
ElementDone_FirstCompleted(st, i) ==
    \E a \in sub_agents[i] : st[a] \in {"done", "empty"}

\* An element is over when every agent of it has finished, with or without
\* an output.
ElementDone(st, i) == \A a \in sub_agents[i] : st[a] \in {"done", "empty"}

\* The exception of a stage whose response does not fit its output_schema.
StageErrors ==
    { [cls |-> "ValidationError", msg |-> <<"output does not match schema">>] }

MissingKey(a) ==
    [cls |-> "KeyError", msg |-> <<"Context variable not found", a>>]

(***************************************************************************)
(* services/claim_processor.py                                             *)
(***************************************************************************)
AgentOutputKeys == <<"documents", "bill_data", "discharge_data", "claim_data",
                     "validation_results", "claim_decision">>

\* dict.get(key): the value, or None
Get(d, k) == IF k \in DOMAIN d THEN d[k] ELSE None

\* (variant: files whose extraction failed are left out of the blob)
_format_input_text_success_only(request_id, pf) ==
    LET ok == SelectSeq(pf, LAMBDA x : x.status = "success") IN
    [request_id |-> request_id,
     ndocuments |-> Len(pf),
     sections   |-> [i \in DOMAIN ok |->
                       [filename |-> ok[i].filename,
                        index    |-> i,
                        body     |-> ok[i].text_content]]]

_format_input_text(request_id, pf) ==
    [request_id |-> request_id,
     ndocuments |-> Len(pf),
     sections   |-> [i \in DOMAIN pf |->
                       [filename |-> pf[i].filename,
                        index    |-> i,
                        body     |-> IF pf[i].status = "success"
                                     THEN pf[i].text_content
                                     ELSE <<[page |-> 0, kind |-> "[Error]"]>>]]]

\* (variant: agent_outputs is the session state itself)
_create_final_response_raw(request_id, session_state) ==
    [request_id        |-> request_id,
     workflow_status   |-> IF DOMAIN session_state # {} THEN "completed"
                           ELSE "no_outputs",
     agent_outputs     |-> session_state,
     raw_session_state |-> session_state]

\* (variant: the run counts as completed only when a decision was stored)
_create_final_response_decided(request_id, session_state) ==
    [request_id        |-> request_id,
     workflow_status   |-> IF "claim_decision" \in DOMAIN session_state
                           THEN "completed" ELSE "no_outputs",
     agent_outputs     |-> [k \in {AgentOutputKeys[i] : i \in DOMAIN AgentOutputKeys}
                              |-> Get(session_state, k)],
     raw_session_state |-> session_state]

\* (variant: agent_outputs keeps only the values that parse as a stage payload)
_create_final_response_strict(request_id, session_state) ==
    [request_id        |-> request_id,
     workflow_status   |-> IF DOMAIN session_state # {} THEN "completed"
                           ELSE "no_outputs",
     agent_outputs     |-> [k \in {AgentOutputKeys[i] : i \in DOMAIN AgentOutputKeys}
                              |-> IF "by" \in DOMAIN Get(session_state, k)
                                  THEN Get(session_state, k) ELSE None],
     raw_session_state |-> session_state]

_create_final_response(request_id, session_state) ==
    [request_id        |-> request_id,
     workflow_status   |-> IF DOMAIN session_state # {} THEN "completed"
                           ELSE "no_outputs",
     agent_outputs     |-> [k \in {AgentOutputKeys[i] : i \in DOMAIN AgentOutputKeys}
                              |-> Get(session_state, k)],
     raw_session_state |-> session_state]

\* (variant: the error report salvages the state the session holds)
_create_error_response_salvage(request_id, error) ==
    [error               |-> error,
     request_id          |-> request_id,
     workflow_status     |-> "error",
     agent_outputs       |-> None,
     raw_session_state   |-> IF request_id \in DOMAIN sessions
                             THEN sessions[request_id] ELSE None,
     recommended_actions |-> << IF Contains(error, "timeout")
                                THEN "Contact support"
                                ELSE "Retry processing" >>]

\* (variant: a timeout gets a workflow_status of its own)
_create_error_response_status(request_id, error) ==
    [error               |-> error,
     request_id          |-> request_id,
     workflow_status     |-> IF error = <<"timeout">> THEN "timeout" ELSE "error",
     agent_outputs       |-> None,
     raw_session_state   |-> None,
     recommended_actions |-> << IF Contains(error, "timeout")
                                THEN "Contact support"
                                ELSE "Retry processing" >>]

_create_error_response(request_id, error) ==
    [error               |-> error,
     request_id          |-> request_id,
     workflow_status     |-> "error",
     agent_outputs       |-> None,
     raw_session_state   |-> None,
     recommended_actions |-> << IF Contains(error, "timeout")
                                THEN "Contact support"
                                ELSE "Retry processing" >>]

\* (variant: HTTP exceptions are re-raised, as process_files does)
Handler_ReraiseHTTP(e) ==
    IF "TimeoutError" \in Bases(e.cls) THEN "timeout"
    ELSE IF "HTTPException" \in Bases(e.cls) THEN "propagate"
    ELSE IF "Exception" \in Bases(e.cls) THEN "exception"
    ELSE "propagate"

\* The except clauses of process_claim, in order: which one takes e.
Handler(e) ==
    IF "TimeoutError" \in Bases(e.cls) THEN "timeout"
    ELSE IF "Exception" \in Bases(e.cls) THEN "exception"
    ELSE "propagate"

\* (variant: _run_workflow is awaited without asyncio.wait_for)
InWaitFor_Unguarded(p) == p \in {}

\* (variant: the timer stays armed after the awaited workflow has returned)
InWaitFor_Late(p) == p \in {"create_session", "run_async", "get_session", "returned"}

\* asyncio.wait_for wraps _run_workflow only: the statements of a run during
\* which the timeout can fire.
InWaitFor(p) == p \in {"create_session", "run_async", "get_session"}

NoReport == [request_id |-> 0]

\* create_health_insurance_claim_processor_agent, given the output_key of
\* each agent its sub-agent factories return: the agents are put into the
\* ParallelAgent and the SequentialAgent as they are, and nothing looks at
\* their output keys.
create_health_insurance_claim_processor_agent(keys) ==
    [exc |-> NoExc, agent |-> [a \in Agents |-> keys[a]]]

\* ClaimProcessingService.__init__: self.main_agent, built from the agents
\* the factories of the source create.
BuiltPipeline ==
    create_health_insurance_claim_processor_agent([a \in Agents |-> output_key(a)]).agent

\* (variant: every run uses one fixed session id)
session_id_fixed(request_id) == 1

\* create_session(..., session_id=request_id): the session a run works on.
session_id(request_id) == request_id

Init ==
    /\ pc = [r \in Runs |-> "idle"]
    /\ files = [r \in Runs |-> <<>>]
    /\ processed_files = [r \in Runs |-> <<>>]
    /\ content = [r \in Runs |-> None]
    /\ sessions = <<>>
    /\ pos = [r \in Runs |-> 1]
    /\ stage = [r \in Runs |-> [a \in Agents |-> "pending"]]
    /\ report = [r \in Runs |-> NoReport]
    /\ run_status = [r \in Runs |-> "created"]
    /\ returned = [r \in Runs |-> 0]
    /\ main_agent = BuiltPipeline

\* A caller invokes process_claim(files): request_id is fresh (uuid4).
Submit(r, fs) ==
    /\ pc[r] = "idle"
    /\ pc' = [pc EXCEPT ![r] = "process_files"]
    /\ files' = [files EXCEPT ![r] = fs]
    /\ run_status' = [run_status EXCEPT ![r] = "running"]
    /\ UNCHANGED <<main_agent, processed_files, content, sessions, pos, stage, report,
                   returned>>

\* Exception e is raised inside the try block of process_claim: the except
\* clause that takes it returns the error report, and an exception no clause
\* takes leaves process_claim.
Raise(r, e) ==
    LET h == Handler(e) IN
    /\ pc' = [pc EXCEPT ![r] = IF h = "propagate" THEN "raised" ELSE "returned"]
    /\ report' = [report EXCEPT ![r] =
                    CASE h = "timeout"   -> _create_error_response(r, <<"timeout">>)
                      [] h = "exception" -> _create_error_response(r, e.msg)
                      [] OTHER           -> report[r]]
    /\ run_status' = [run_status EXCEPT ![r] =
                        CASE h = "timeout"   -> "timed_out"
                          [] h = "exception" -> "failed"
                          [] OTHER           -> "raised"]
    /\ returned' = [returned EXCEPT ![r] =
                      IF h = "propagate" THEN returned[r] ELSE returned[r] + 1]

\* processed_files = await self.pdf_processor.process_files(files)
ProcessFiles(r) ==
    /\ pc[r] = "process_files"
    /\ process_files(files[r]).exc.cls = "none"
    /\ processed_files' = [processed_files EXCEPT ![r] = process_files(files[r]).list]
    /\ pc' = [pc EXCEPT ![r] = "create_session"]
    /\ UNCHANGED <<main_agent, files, content, sessions, pos, stage, report, run_status,
                   returned>>

\* ... and process_files raises.
ProcessFilesRaises(r) ==
    /\ pc[r] = "process_files"
    /\ process_files(files[r]).exc.cls # "none"
    /\ Raise(r, process_files(files[r]).exc)
    /\ UNCHANGED <<main_agent, files, processed_files, content, sessions, pos, stage>>

\* _run_workflow: create_session, then build the Content for the runner.
CreateSession(r) ==
    /\ pc[r] = "create_session"
    /\ sessions' = (session_id(r) :> <<>>) @@ sessions
    /\ content' = [content EXCEPT ![r] = _format_input_text(r, processed_files[r])]
    /\ pc' = [pc EXCEPT ![r] = "run_async"]
    /\ UNCHANGED <<main_agent, files, processed_files, pos, stage, report, run_status,
                   returned>>

\* The agents of element i are started: a SequentialAgent element starts its
\* one agent, a ParallelAgent creates the tasks of all its members at once.
Started(st, i) ==
    [b \in Agents |-> IF b \in sub_agents[i] THEN "running" ELSE st[b]]

\* An exception raised by agent a leaves runner.run_async: the agents still
\* running are cancelled.
Abort(st, a) ==
    [b \in Agents |-> IF b = a THEN "failed"
                      ELSE IF st[b] = "running" THEN "cancelled"
                      ELSE st[b]]

\* The runner enters the current element: each agent's instruction is filled
\* from the session state and its model call is issued.
StageStart(r) ==
    /\ pc[r] = "run_async"
    /\ pos[r] \in DOMAIN sub_agents
    /\ \A a \in sub_agents[pos[r]] :
          /\ stage[r][a] = "pending"
          /\ instruction_keys(a) \subseteq DOMAIN sessions[session_id(r)]
    /\ stage' = [stage EXCEPT ![r] = Started(stage[r], pos[r])]
    /\ UNCHANGED <<main_agent, pc, files, processed_files, content, sessions, pos, report,
                   run_status, returned>>

\* ... and a placeholder of agent a's instruction is missing from the state.
StageStartMissingKey(r, a) ==
    /\ pc[r] = "run_async"
    /\ pos[r] \in DOMAIN sub_agents
    /\ \A b \in sub_agents[pos[r]] : stage[r][b] = "pending"
    /\ a \in sub_agents[pos[r]]
    /\ ~(instruction_keys(a) \subseteq DOMAIN sessions[session_id(r)])
    /\ stage' = [stage EXCEPT ![r] = Abort(Started(stage[r], pos[r]), a)]
    /\ Raise(r, MissingKey(a))
    /\ UNCHANGED <<main_agent, files, processed_files, content, sessions, pos>>

\* The agent's final response v passes its output_schema and is stored under
\* its output_key.
StageWrite(r, a, v) ==
    /\ pc[r] = "run_async"
    /\ stage[r][a] = "running"
    /\ sessions' = [sessions EXCEPT ![session_id(r)] =
                       (main_agent[a] :> v) @@ sessions[session_id(r)]]
    /\ stage' = [stage EXCEPT ![r][a] = "done"]
    /\ UNCHANGED <<main_agent, pc, files, processed_files, content, pos, report, run_status,
                   returned>>

\* The agent's final response has no text: nothing is stored.
StageEmpty(r, a) ==
    /\ pc[r] = "run_async"
    /\ stage[r][a] = "running"
    /\ stage' = [stage EXCEPT ![r][a] = "empty"]
    /\ UNCHANGED <<main_agent, pc, files, processed_files, content, sessions, pos, report,
                   run_status, returned>>

\* The agent's response does not fit its output_schema: the validation error
\* leaves the agent.
StageRaise(r, a, e) ==
    /\ pc[r] = "run_async"
    /\ stage[r][a] = "running"
    /\ e \in StageErrors
    /\ stage' = [stage EXCEPT ![r] = Abort(stage[r], a)]
    /\ Raise(r, e)
    /\ UNCHANGED <<main_agent, files, processed_files, content, sessions, pos>>

\* SequentialAgent moves to its next element; after the last one run_async is
\* exhausted.
Advance(r) ==
    /\ pc[r] = "run_async"
    /\ pos[r] \in DOMAIN sub_agents
    /\ ElementDone(stage[r], pos[r])
    /\ pos' = [pos EXCEPT ![r] = pos[r] + 1]
    /\ pc' = [pc EXCEPT ![r] = IF pos[r] = Len(sub_agents) THEN "get_session"
                               ELSE "run_async"]
    /\ UNCHANGED <<main_agent, files, processed_files, content, sessions, stage, report,
                   run_status, returned>>

\* get_session, return final_state, _create_final_response, return response
Complete(r) ==
    /\ pc[r] = "get_session"
    /\ LET final_state == IF session_id(r) \in DOMAIN sessions
                          THEN sessions[session_id(r)] ELSE <<>> IN
       report' = [report EXCEPT ![r] = _create_final_response(r, final_state)]
    /\ pc' = [pc EXCEPT ![r] = "returned"]
    /\ run_status' = [run_status EXCEPT ![r] = "completed"]
    /\ returned' = [returned EXCEPT ![r] = returned[r] + 1]
    /\ UNCHANGED <<main_agent, files, processed_files, content, sessions, pos, stage>>

\* (variant: TimeoutError is raised while the workflow task is left running)
Timeout_NoCancel(r) ==
    /\ InWaitFor(pc[r])
    /\ Raise(r, [cls |-> "TimeoutError", msg |-> <<>>])
    /\ UNCHANGED <<main_agent, files, processed_files, content, sessions, pos, stage>>

\* asyncio.wait_for: the timeout fires, the workflow task is cancelled and
\* TimeoutError is raised in process_claim.
Timeout(r) ==
    /\ InWaitFor(pc[r])
    /\ stage' = [stage EXCEPT ![r] =
                   [a \in Agents |-> IF stage[r][a] = "running" THEN "cancelled"
                                     ELSE stage[r][a]]]
    /\ Raise(r, [cls |-> "TimeoutError", msg |-> <<>>])
    /\ UNCHANGED <<main_agent, files, processed_files, content, sessions, pos>>

Next ==
    \/ \E r \in Runs, fs \in Batches : Submit(r, fs)
    \/ \E r \in Runs : ProcessFiles(r)
    \/ \E r \in Runs : ProcessFilesRaises(r)
    \/ \E r \in Runs : CreateSession(r)
    \/ \E r \in Runs : StageStart(r)
    \/ \E r \in Runs, a \in Agents : StageStartMissingKey(r, a)
    \/ \E r \in Runs, a \in Agents : \E v \in Payloads(a) : StageWrite(r, a, v)
    \/ \E r \in Runs, a \in Agents : StageEmpty(r, a)
    \/ \E r \in Runs, a \in Agents : \E e \in StageErrors : StageRaise(r, a, e)
    \/ \E r \in Runs : Advance(r)
    \/ \E r \in Runs : Complete(r)
    \/ \E r \in Runs : Timeout(r)

Spec == Init /\ [][Next]_vars

\* The event loop runs the timer of asyncio.wait_for; nothing obliges a
\* stage's model call to ever answer.
Fairness ==
    \A r \in Runs :
        WF_vars(Timeout(r))

LiveSpec == Spec /\ Fairness

TypeOK ==
    /\ \A r \in DOMAIN pc : pc[r] \in {"idle", "process_files", "create_session",
                                        "run_async", "get_session",
                                        "returned", "raised"}
    /\ DOMAIN sessions \subseteq DOMAIN pc

(***************************************************************************)
(* _create_final_response on any final state.  The session of run 1 holds  *)
(* any subset of the six declared keys and of one undeclared key, each     *)
(* with a value of any shape (a stage payload, a bare str, None), and the  *)
(* run is at the statement that reads the session back.                    *)
(***************************************************************************)
StateKeys == {AgentOutputKeys[i] : i \in DOMAIN AgentOutputKeys} \cup {"temp:scratch"}

StateValues == {[status |-> "n/a", by |-> "LlmAgent"], [py |-> "str"], None}

FinalStates == UNION {[S -> StateValues] : S \in SUBSET StateKeys}

AsmInit ==
    /\ pc = [r \in Runs |-> IF r = 1 THEN "get_session" ELSE "idle"]
    /\ files = [r \in Runs |-> <<>>]
    /\ processed_files = [r \in Runs |-> <<>>]
    /\ content = [r \in Runs |-> None]
    /\ \E s \in FinalStates : sessions = (1 :> s)
    /\ pos = [r \in Runs |-> IF r = 1 THEN Len(sub_agents) + 1 ELSE 1]
    /\ stage = [r \in Runs |-> [a \in Agents |-> "pending"]]
    /\ report = [r \in Runs |-> NoReport]
    /\ run_status = [r \in Runs |-> IF r = 1 THEN "running" ELSE "created"]
    /\ returned = [r \in Runs |-> 0]
    /\ main_agent = BuiltPipeline

AsmNext == Complete(1)

AsmSpec == AsmInit /\ [][AsmNext]_vars

(***************************************************************************)
(* Concurrent calls of process_claim on the one ClaimProcessingService     *)
(* (main.py keeps a single claim_service): the same batch is submitted     *)
(* MaxConcRuns times and the calls interleave at every await.  Every stage *)
(* here answers with an output or with a schema error.                     *)
(***************************************************************************)
MaxConcRuns == 2

ConcRuns == 1..MaxConcRuns

ConcInit ==
    /\ pc = [r \in ConcRuns |-> "idle"]
    /\ files = [r \in ConcRuns |-> <<>>]
    /\ processed_files = [r \in ConcRuns |-> <<>>]
    /\ content = [r \in ConcRuns |-> None]
    /\ sessions = <<>>
    /\ pos = [r \in ConcRuns |-> 1]
    /\ stage = [r \in ConcRuns |-> [a \in Agents |-> "pending"]]
    /\ report = [r \in ConcRuns |-> NoReport]
    /\ run_status = [r \in ConcRuns |-> "created"]
    /\ returned = [r \in ConcRuns |-> 0]
    /\ main_agent = BuiltPipeline

ConcNext ==
    \/ \E r \in ConcRuns : Submit(r, <<BillPdf>>)
    \/ \E r \in ConcRuns : ProcessFiles(r)
    \/ \E r \in ConcRuns : CreateSession(r)
    \/ \E r \in ConcRuns : StageStart(r)
    \/ \E r \in ConcRuns, a \in Agents : \E v \in Payloads(a) : StageWrite(r, a, v)
    \/ \E r \in ConcRuns, a \in Agents : \E e \in StageErrors : StageRaise(r, a, e)
    \/ \E r \in ConcRuns : Advance(r)
    \/ \E r \in ConcRuns : Complete(r)
    \/ \E r \in ConcRuns : Timeout(r)

ConcSpec == ConcInit /\ [][ConcNext]_vars

(***************************************************************************)
(* The coordinator driving the packaged pipeline (decision schema with a   *)
(* free-string status), every stage answering with an output or with a     *)
(* schema error.                                                           *)
(***************************************************************************)
PackagedNext ==
    \/ \E r \in Runs, fs \in Batches : Submit(r, fs)
    \/ \E r \in Runs : ProcessFiles(r)
    \/ \E r \in Runs : ProcessFilesRaises(r)
    \/ \E r \in Runs : CreateSession(r)
    \/ \E r \in Runs : StageStart(r)
    \/ \E r \in Runs, a \in Agents : \E v \in PackagedPayloads(a) : StageWrite(r, a, v)
    \/ \E r \in Runs, a \in Agents : \E e \in StageErrors : StageRaise(r, a, e)
    \/ \E r \in Runs : Advance(r)
    \/ \E r \in Runs : Complete(r)
    \/ \E r \in Runs : Timeout(r)

PackagedSpec == Init /\ [][PackagedNext]_vars

(***************************************************************************)
(* Building the pipeline from member agents whose output keys are an       *)
(* input: the keys of the source, or the discharge agent configured with   *)
(* the bill agent's key.  Runs are served once the service is built.       *)
(***************************************************************************)
MemberKeyChoices ==
    { [a \in Agents |-> output_key(a)],
      [a \in Agents |-> IF a = "DischargeProcessingAgent" THEN "bill_data"
                        ELSE output_key(a)] }

BuildInit ==
    /\ pc = [r \in Runs |-> "idle"]
    /\ files = [r \in Runs |-> <<>>]
    /\ processed_files = [r \in Runs |-> <<>>]
    /\ content = [r \in Runs |-> None]
    /\ sessions = <<>>
    /\ pos = [r \in Runs |-> 1]
    /\ stage = [r \in Runs |-> [a \in Agents |-> "pending"]]
    /\ report = [r \in Runs |-> NoReport]
    /\ run_status = [r \in Runs |-> "created"]
    /\ returned = [r \in Runs |-> 0]
    /\ main_agent = None

\* self.main_agent = create_health_insurance_claim_processor_agent()
Build(keys) ==
    /\ main_agent = None
    /\ create_health_insurance_claim_processor_agent(keys).exc.cls = "none"
    /\ main_agent' = create_health_insurance_claim_processor_agent(keys).agent
    /\ UNCHANGED <<pc, files, processed_files, content, sessions, pos, stage,
                   report, run_status, returned>>

BuildNext ==
    \/ \E keys \in MemberKeyChoices : Build(keys)
    \/ main_agent # None /\ Next

BuildSpec == BuildInit /\ [][BuildNext]_vars

(***************************************************************************)
(* _format_input_text on any list of per-file results.  processed_files of *)
(* run 1 is any list of up to MaxResults file_info dicts, of status        *)
(* success, failed or any other, and the run is at the statement that      *)
(* builds the runner's input from it.                                      *)
(***************************************************************************)
MaxResults == 3

FileInfos ==
    { [filename |-> <<"bill", ".", "p", "d", "f">>,
       text_content |-> <<[page |-> 1, kind |-> "text"]>>,
       status |-> "success", error |-> <<>>],
      [filename |-> <<"scan", ".", "p", "d", "f">>,
       text_content |-> <<[page |-> 0, kind |-> "[No readable text found]"]>>,
       status |-> "success", error |-> <<>>],
      [filename |-> <<"broken", ".", "p", "d", "f">>,
       text_content |-> <<>>,
       status |-> "failed", error |-> <<"invalid pdf">>],
      [filename |-> <<"late", ".", "p", "d", "f">>,
       text_content |-> <<>>,
       status |-> "skipped", error |-> <<>>] }

ResultLists == UNION {[1..n -> FileInfos] : n \in 0..MaxResults}

FmtInit ==
    /\ pc = [r \in Runs |-> IF r = 1 THEN "create_session" ELSE "idle"]
    /\ files = [r \in Runs |-> <<>>]
    /\ \E pf \in ResultLists :
          processed_files = [r \in Runs |-> IF r = 1 THEN pf ELSE <<>>]
    /\ content = [r \in Runs |-> None]
    /\ sessions = <<>>
    /\ pos = [r \in Runs |-> 1]
    /\ stage = [r \in Runs |-> [a \in Agents |-> "pending"]]
    /\ report = [r \in Runs |-> NoReport]
    /\ run_status = [r \in Runs |-> IF r = 1 THEN "running" ELSE "created"]
    /\ returned = [r \in Runs |-> 0]
    /\ main_agent = BuiltPipeline

FmtNext == CreateSession(1)

FmtSpec == FmtInit /\ [][FmtNext]_vars

(***************************************************************************)
(* The packaged coordinator: src/health_insurance_claim_processor/         *)
(* services/claim_processor.py and models/response.py.  A value stored in  *)
(* the state is None, a str (its words, lower-cased) or a dict; scores are *)
(* written as decimal strings.                                             *)
(***************************************************************************)
Text(words) == [py |-> "str", text |-> words]

Dict(d) == [py |-> "dict", d |-> d]

\* bool(v)
Truthy(v) ==
    CASE v.py = "None" -> FALSE
      [] v.py = "str"  -> v.text # <<>>
      [] v.py = "dict" -> DOMAIN v.d # {}
      [] OTHER         -> TRUE

\* state.get(k1) or state.get(k2) or ...: the first truthy value, else the
\* value of the last lookup.
RECURSIVE OrChain(_, _, _)
OrChain(state, keys, i) ==
    IF i = Len(keys) \/ Truthy(Get(state, keys[i])) THEN Get(state, keys[i])
    ELSE OrChain(state, keys, i + 1)

\* d.get(k, default)
DictGet(d, k, default) == IF k \in DOMAIN d THEN d[k] ELSE default

\* float(x) succeeds
Numeric(x) == x \in {"0.0", "0.6", "0.7", "0.8", "0.9", "1.0"}

\* models/response.py, ClaimDecision.status: Literal[...]
ResponseStatuses == {"approved", "rejected", "pending"}

DecisionKeys == <<"claim_decision", "decision", "ClaimDecisionAgent", "final_decision">>

\* (variant: "reject" and "deny" are tested before "approve")
KeywordStatus_RejectFirst(words) ==
    IF Contains(words, "reject") \/ Contains(words, "deny") THEN "rejected"
    ELSE IF Contains(words, "approve") THEN "approved"
    ELSE "pending"

\* The keyword tests on the lower-cased text of a stored decision.
KeywordStatus(words) ==
    IF Contains(words, "approve") THEN "approved"
    ELSE IF Contains(words, "reject") \/ Contains(words, "deny") THEN "rejected"
    ELSE "pending"

\* _parse_claim_decision: the ClaimDecision it returns, or the exception it
\* raises.
_parse_claim_decision(session_state, final_response) ==
    LET decision_data == OrChain(session_state, DecisionKeys, 1) IN
    IF Truthy(decision_data)
    THEN IF decision_data.py = "dict"
         THEN LET status == DictGet(decision_data.d, "status", "pending")
                  score  == DictGet(decision_data.d, "confidence_score", "0.8")
              IN  IF ~Numeric(score)
                  THEN [exc |-> [cls |-> "ValueError",
                                 msg |-> <<"could not convert string to float">>],
                        value |-> None]
                  ELSE IF status \notin ResponseStatuses
                  THEN [exc |-> [cls |-> "ValidationError",
                                 msg |-> <<"1 validation error for ClaimDecision">>],
                        value |-> None]
                  ELSE [exc |-> NoExc,
                        value |-> [status |-> status,
                                   recommended_actions |-> <<"Review processed claim">>,
                                   reason |-> <<"Processed by agent">>,
                                   confidence_score |-> score]]
         ELSE [exc |-> NoExc,
               value |-> [status |-> KeywordStatus(decision_data.text),
                          recommended_actions |-> <<"Review claim details">>,
                          reason |-> <<"automated review">>,
                          confidence_score |-> "0.7"]]
    ELSE IF Truthy(final_response) /\ Contains(final_response.text, "approve")
    THEN [exc |-> NoExc,
          value |-> [status |-> "approved",
                     recommended_actions |-> <<"Process claim for payment">>,
                     reason |-> <<"Claim approved based on document analysis">>,
                     confidence_score |-> "0.8"]]
    ELSE IF /\ Truthy(final_response)
            /\ \/ Contains(final_response.text, "reject")
               \/ Contains(final_response.text, "deny")
    THEN [exc |-> NoExc,
          value |-> [status |-> "rejected",
                     recommended_actions |-> <<"Notify claimant of rejection">>,
                     reason |-> <<"Claim rejected based on document analysis">>,
                     confidence_score |-> "0.8"]]
    ELSE [exc |-> NoExc,
          value |-> [status |-> "pending",
                     recommended_actions |-> <<"Manual review by claim specialist required">>,
                     reason |-> <<"Automated processing completed">>,
                     confidence_score |-> "0.6"]]

\* _parse_document_data when no specialised agent's key is in the state:
\* _parse_legacy_results makes one document of every other truthy key.
_parse_document_data(session_state) ==
    {k \in DOMAIN session_state \ {"validation_results", "claim_decision"} :
        Truthy(session_state[k])}

\* _parse_validation_results when none of its keys is in the state.
_parse_validation_results(session_state) ==
    [missing_documents |-> <<>>, discrepancies |-> <<>>, validation_score |-> "0.7"]

\* (variant: an exception of the parsers leaves _parse_agent_results)
ParseGuard_None(exc) == exc

\* The try block of _parse_agent_results: "except Exception" takes whatever the
\* parsers raise.
ParseGuard(exc) == IF "Exception" \in Bases(exc.cls) THEN NoExc ELSE exc

_parse_agent_results(request_id, session_state, final_response) ==
    LET d == _parse_claim_decision(session_state, final_response) IN
    IF d.exc.cls = "none"
    THEN [exc |-> NoExc,
          value |-> [request_id     |-> request_id,
                     documents      |-> _parse_document_data(session_state),
                     validation     |-> _parse_validation_results(session_state),
                     claim_decision |-> d.value]]
    ELSE [exc |-> ParseGuard(d.exc),
          value |-> [request_id     |-> request_id,
                     documents      |-> {},
                     validation     |->
                         [missing_documents |-> <<"Result parsing failed">>,
                          discrepancies     |-> << <<"Parsing error:">> \o d.exc.msg >>,
                          validation_score  |-> "0.0"],
                     claim_decision |->
                         [status |-> "pending",
                          recommended_actions |-> <<"Manual review required">>,
                          reason |-> <<"Unable to parse agent results">>,
                          confidence_score |-> "0.0"]]]

\* (variant: the error response does not carry the exception's text)
PackagedErrorResponse_NoDetail(request_id, e) ==
    [request_id     |-> request_id,
     documents      |-> {},
     validation     |-> [missing_documents |-> <<"Processing failed">>,
                         discrepancies     |-> << <<"Error:">> >>,
                         validation_score  |-> "0.0"],
     claim_decision |-> [status |-> "rejected",
                         recommended_actions |-> <<"Contact support for assistance">>,
                         reason |-> <<"Processing error:">>,
                         confidence_score |-> "1.0"]]

\* The error response of the packaged process_claim.
PackagedErrorResponse(request_id, e) ==
    [request_id     |-> request_id,
     documents      |-> {},
     validation     |-> [missing_documents |-> <<"Processing failed">>,
                         discrepancies     |-> << <<"Error:">> \o e.msg >>,
                         validation_score  |-> "0.0"],
     claim_decision |-> [status |-> "rejected",
                         recommended_actions |-> <<"Contact support for assistance">>,
                         reason |-> <<"Processing error:">> \o e.msg,
                         confidence_score |-> "1.0"]]

\* (variant: the coordinator re-raises HTTP exceptions, as the route does)
PackagedHandler_ReraiseHTTP(e) ==
    IF "HTTPException" \in Bases(e.cls) THEN "propagate"
    ELSE IF "Exception" \in Bases(e.cls) THEN "response"
    ELSE "propagate"

\* The one except clause of the packaged process_claim.
PackagedHandler(e) ==
    IF "Exception" \in Bases(e.cls) THEN "response" ELSE "propagate"

\* HTTPException.status_code, the first word of str(e).
StatusCode(e) ==
    CASE e.msg[1] = "400:" -> 400
      [] e.msg[1] = "504:" -> 504
      [] OTHER             -> 500

\* main.py: http_exception_handler / general_exception_handler
ErrorResponse(e) ==
    [body        |-> [error |-> e.cls, message |-> e.msg],
     status_code |-> IF "HTTPException" \in Bases(e.cls) THEN StatusCode(e) ELSE 500]

ServiceNotInitialized ==
    [cls |-> "HTTPException",
     msg |-> <<"500:", "Claim processing service not initialized">>]

\* The values a decision key of the final state can hold, and the final
\* response event's text.
StoredValues ==
    { None, Text(<<>>), Text(<<"approve", "reject", "deny">>), Text(<<"reject">>),
      Text(<<"deny">>), Text(<<"other">>),
      Dict([status |-> "approved", confidence_score |-> "0.9"]),
      Dict([status |-> "denied", confidence_score |-> "0.9"]),
      Dict([status |-> "approved", confidence_score |-> "high"]) }

PackagedStates ==
    UNION {[S -> StoredValues] :
              S \in SUBSET {DecisionKeys[i] : i \in DOMAIN DecisionKeys}}

FinalResponses == {None, Text(<<"approve", "deny">>), Text(<<"reject">>), Text(<<"other">>)}

PackagedInit ==
    /\ pc = [r \in Runs |-> "idle"]
    /\ files = [r \in Runs |-> <<>>]
    /\ processed_files = [r \in Runs |-> <<>>]
    /\ content = [r \in Runs |-> None]
    /\ sessions = <<>>
    /\ pos = [r \in Runs |-> 1]
    /\ stage = [r \in Runs |-> [a \in Agents |-> "pending"]]
    /\ report = [r \in Runs |-> NoReport]
    /\ run_status = [r \in Runs |-> "created"]
    /\ returned = [r \in Runs |-> 0]
    /\ main_agent \in {None, BuiltPipeline}

\* The HTTP answer to the request of run r.
Answer(r, status_code, body, outcome) ==
    /\ report' = [report EXCEPT ![r] = [body |-> body, status_code |-> status_code]]
    /\ pc' = [pc EXCEPT ![r] = "returned"]
    /\ run_status' = [run_status EXCEPT ![r] = outcome]
    /\ returned' = [returned EXCEPT ![r] = returned[r] + 1]

\* Exception e is raised inside the try block of the packaged process_claim:
\* its except clause returns the error response; an exception it does not
\* take reaches the route and the application's exception handlers.
PackagedRaise(r, e) ==
    IF PackagedHandler(e) = "response"
    THEN Answer(r, 200, PackagedErrorResponse(r, e), "failed")
    ELSE Answer(r, ErrorResponse(e).status_code, ErrorResponse(e).body, "raised")

\* POST /process-claim with at least one file, service still None:
\* get_claim_service raises before the route body runs.
PackagedRequestNoService(r, fs) ==
    /\ pc[r] = "idle"
    /\ Len(fs) >= 1
    /\ main_agent = None
    /\ files' = [files EXCEPT ![r] = fs]
    /\ Answer(r, ErrorResponse(ServiceNotInitialized).status_code,
                  ErrorResponse(ServiceNotInitialized).body, "raised")
    /\ UNCHANGED <<main_agent, processed_files, content, sessions, pos, stage>>

\* ... service initialised: the route awaits service.process_claim(files).
PackagedRequest(r, fs) ==
    /\ pc[r] = "idle"
    /\ Len(fs) >= 1
    /\ main_agent # None
    /\ files' = [files EXCEPT ![r] = fs]
    /\ pc' = [pc EXCEPT ![r] = "process_files"]
    /\ run_status' = [run_status EXCEPT ![r] = "running"]
    /\ UNCHANGED <<main_agent, processed_files, content, sessions, pos, stage,
                   report, returned>>

PackagedProcessFiles(r) ==
    /\ pc[r] = "process_files"
    /\ process_files(files[r]).exc.cls = "none"
    /\ processed_files' = [processed_files EXCEPT ![r] = process_files(files[r]).list]
    /\ pc' = [pc EXCEPT ![r] = "create_session"]
    /\ UNCHANGED <<main_agent, files, content, sessions, pos, stage, report,
                   run_status, returned>>

PackagedProcessFilesRaises(r) ==
    /\ pc[r] = "process_files"
    /\ process_files(files[r]).exc.cls # "none"
    /\ PackagedRaise(r, process_files(files[r]).exc)
    /\ UNCHANGED <<main_agent, files, processed_files, content, sessions, pos, stage>>

PackagedCreateSession(r) ==
    /\ pc[r] = "create_session"
    /\ sessions' = (session_id(r) :> <<>>) @@ sessions
    /\ pc' = [pc EXCEPT ![r] = "run_async"]
    /\ UNCHANGED <<main_agent, files, processed_files, content, pos, stage, report,
                   run_status, returned>>

\* The runner is exhausted with final state st and last final-response event
\* fr; _run_agent_workflow returns them and _parse_agent_results builds the
\* response.
PackagedWorkflowReturns(r, st, fr) ==
    /\ pc[r] = "run_async"
    /\ sessions' = [sessions EXCEPT ![session_id(r)] = st]
    /\ LET p == _parse_agent_results(r, st, fr) IN
       IF p.exc.cls = "none" THEN Answer(r, 200, p.value, "completed")
       ELSE PackagedRaise(r, p.exc)
    /\ UNCHANGED <<main_agent, files, processed_files, content, pos, stage>>

\* The runner raises e: _run_agent_workflow turns it into HTTPException(500).
PackagedWorkflowRaises(r, e) ==
    /\ pc[r] = "run_async"
    /\ PackagedRaise(r, [cls |-> "HTTPException",
                         msg |-> <<"500:", "Agent workflow failed:">> \o e.msg])
    /\ UNCHANGED <<main_agent, files, processed_files, content, sessions, pos, stage>>

\* asyncio.wait_for times out: process_claim raises HTTPException(504)
\* inside its own try block.
PackagedTimeout(r) ==
    /\ pc[r] = "run_async"
    /\ PackagedRaise(r, [cls |-> "HTTPException",
                         msg |-> <<"504:", "Agent processing timed out">>])
    /\ UNCHANGED <<main_agent, files, processed_files, content, sessions, pos, stage>>

PackagedAppNext ==
    \/ \E fs \in Batches : PackagedRequestNoService(1, fs)
    \/ \E fs \in Batches : PackagedRequest(1, fs)
    \/ PackagedProcessFiles(1)
    \/ PackagedProcessFilesRaises(1)
    \/ PackagedCreateSession(1)
    \/ /\ pc[1] = "run_async"
       /\ \E st \in PackagedStates, fr \in FinalResponses :
              PackagedWorkflowReturns(1, st, fr)
    \/ \E e \in StageErrors : PackagedWorkflowRaises(1, e)
    \/ PackagedTimeout(1)

PackagedAppSpec == PackagedInit /\ [][PackagedAppNext]_vars

(***************************************************************************)
(* validate_files on file names of every shape: no suffix, a suffix that   *)
(* is a fragment of "pdf", a permutation of it, another suffix.            *)
(***************************************************************************)
ScanNoExt == [stem |-> "scan", ext |-> <<>>, big |-> FALSE,
              reader_ok |-> TRUE, pages |-> <<"text">>]
ScanP     == [stem |-> "scan", ext |-> <<"p">>, big |-> FALSE,
              reader_ok |-> TRUE, pages |-> <<"text">>]
ScanPd    == [stem |-> "scan", ext |-> <<"p", "d">>, big |-> FALSE,
              reader_ok |-> TRUE, pages |-> <<"text">>]
ScanDf    == [stem |-> "scan", ext |-> <<"d", "f">>, big |-> FALSE,
              reader_ok |-> TRUE, pages |-> <<"text">>]
ScanFdp   == [stem |-> "scan", ext |-> <<"f", "d", "p">>, big |-> FALSE,
              reader_ok |-> TRUE, pages |-> <<"text">>]

NamedFiles == {BillPdf, TimeoutPdf, NotesTxt, ScanNoExt, ScanP, ScanPd, ScanDf, ScanFdp}

NamedBatches == UNION {[1..n -> NamedFiles] : n \in 0..MaxFiles}

ValNext ==
    \/ \E fs \in NamedBatches : Submit(1, fs)
    \/ ProcessFiles(1)
    \/ ProcessFilesRaises(1)
    \/ CreateSession(1)

ValSpec == Init /\ [][ValNext]_vars

(***************************************************************************)
(* Properties                                                              *)
(***************************************************************************)
Returned(r) == pc[r] = "returned"

WorkflowStatuses == {"completed", "no_outputs", "error"}

\* C1: every call of process_claim returns exactly one Report and never
\* raises to its caller, and the Report's workflow_status is one of completed,
\* no_outputs, error, on the completion, timeout and exception paths alike.
C1_ExactlyOneReport ==
    \A r \in Runs :
        /\ pc[r] # "raised"
        /\ returned[r] <= 1
        /\ Returned(r) <=> returned[r] = 1
        /\ Returned(r) => report[r].workflow_status \in WorkflowStatuses
        /\ ~Returned(r) => report[r] = NoReport

C1_Witness ==
    \E r \in Runs :
        /\ Returned(r)
        /\ run_status[r] = "failed"
        /\ report[r].error[1] \in {"400:", "500:"}

\* C2: when the outer timeout fires, the Report has workflow_status "error",
\* recommends "Contact support" and carries neither agent_outputs nor raw
\* state, whatever the stages had already written.
C2_TimeoutReport ==
    \A r \in Runs :
        run_status[r] = "timed_out" =>
            /\ Returned(r)
            /\ report[r].workflow_status = "error"
            /\ Contains(report[r].recommended_actions, "Contact support")
            /\ report[r].agent_outputs = None
            /\ report[r].raw_session_state = None

C2_Witness ==
    \E r \in Runs :
        /\ run_status[r] = "timed_out"
        /\ r \in DOMAIN sessions
        /\ {"documents", "bill_data"} \subseteq DOMAIN sessions[r]

\* C3: a Run that has reached the pipeline invocation eventually returns a
\* Report even if a stage never completes, and the timeout that forces this
\* never fires during the preceding text extraction.
C3_WorkflowEventuallyReturns ==
    /\ [][\A r \in Runs : pc[r] = "process_files" => run_status'[r] # "timed_out"]_vars
    /\ \A r \in Runs :
          (pc[r] \in {"create_session", "run_async", "get_session"})
              ~> (pc[r] = "returned")

C3_Witness ==
    \E r \in Runs :
        /\ Returned(r)
        /\ run_status[r] = "timed_out"
        /\ \E a \in Agents : stage[r][a] = "cancelled"

\* C4: the elements run in the order classify, parallel group, validate,
\* decide: an agent has begun only if every agent of every earlier element has
\* finished and its output, if any, is in the session state.
C4_Order ==
    << {"DocumentAgent"},
       {"BillProcessingAgent", "DischargeProcessingAgent", "ClaimDataAgent"},
       {"ValidationAgent"},
       {"ClaimDecisionAgent"} >>

C4_StrictElementOrder ==
    \A r \in Runs : \A i, j \in DOMAIN C4_Order :
        i < j =>
            \A a \in C4_Order[j] :
                stage[r][a] # "pending" =>
                    \A b \in C4_Order[i] :
                        /\ stage[r][b] \in {"done", "empty"}
                        /\ stage[r][b] = "done" =>
                               output_key(b) \in DOMAIN sessions[r]

C4_Witness ==
    \E r \in Runs :
        /\ stage[r]["ClaimDecisionAgent"] = "running"
        /\ "validation_results" \in DOMAIN sessions[r]

\* C5: when one member of the parallel group fails, its siblings are not
\* cancelled, the group completes, and the Report exposes an output for each
\* member key with the other members' outputs intact.
C5_FanOutFailureIsolated ==
    \A r \in Runs :
        ( /\ Returned(r)
          /\ run_status[r] # "timed_out"
          /\ r \in DOMAIN sessions
          /\ "documents" \in DOMAIN sessions[r]
          /\ \E a \in parallel_process_agent : stage[r][a] = "failed" )
        =>
        /\ \A b \in parallel_process_agent : stage[r][b] # "cancelled"
        /\ report[r].workflow_status = "completed"
        /\ \A b \in parallel_process_agent :
              /\ output_key(b) \in DOMAIN report[r].agent_outputs
              /\ stage[r][b] = "done" =>
                     report[r].agent_outputs[output_key(b)]
                         = sessions[r][output_key(b)]

\* C6: the failure of a stage other than the decision stage does not abort
\* the Run: every later element still executes and the Report is a
\* success-path Report.
C6_StageFailureDoesNotAbort ==
    \A r \in Runs :
        ( /\ Returned(r)
          /\ run_status[r] # "timed_out"
          /\ \E a \in Agents \ {"ClaimDecisionAgent"} : stage[r][a] = "failed" )
        =>
        /\ stage[r]["ClaimDecisionAgent"] # "pending"
        /\ report[r].workflow_status = "completed"

\* C7: when the text extraction of one file of a multi-file batch fails, the
\* Run is not aborted and the Report's workflow_status is completed.
C7_FileFailureIsolated ==
    \A r \in Runs :
        ( /\ Returned(r)
          /\ run_status[r] # "timed_out"
          /\ \A a \in Agents : stage[r][a] # "failed"
          /\ Len(files[r]) >= 2
          /\ validate_files(files[r]) = NoExc
          /\ \E i \in DOMAIN files[r] : ~files[r][i].reader_ok
          /\ \E i \in DOMAIN files[r] : files[r][i].reader_ok )
        =>
        report[r].workflow_status = "completed"

\* C8: an error Report recommends "Contact support" if the failure was the
\* outer timeout and "Retry processing" for every other failure, whatever the
\* exception's message.
C8_RecommendedAction ==
    \A r \in Runs :
        (Returned(r) /\ report[r].workflow_status = "error") =>
            report[r].recommended_actions =
                IF run_status[r] = "timed_out" THEN <<"Contact support">>
                ELSE <<"Retry processing">>

\* C9 (as stated): a timeout is reported with a workflow_status that differs
\* from the one a generic failure is reported with.
C9_TimeoutStatusDistinct ==
    \A r \in Runs :
        run_status[r] = "timed_out" =>
            \A e \in StageErrors :
                report[r].workflow_status
                    # _create_error_response(r, e.msg).workflow_status

\* C9 (amended): a timeout and a generic failure are both reported with
\* workflow_status "error"; the timeout's Report is the one whose error is
\* "timeout".
C9_TimeoutSharesErrorStatus ==
    \A r \in Runs :
        /\ run_status[r] = "timed_out" =>
               /\ report[r].workflow_status = "error"
               /\ report[r].error = <<"timeout">>
        /\ run_status[r] = "failed" =>
               /\ report[r].workflow_status = "error"
               /\ report[r].error # <<>>

C9_Witness ==
    \E r \in Runs :
        /\ run_status[r] = "timed_out"
        /\ report[r].workflow_status = "error"
        /\ pos[r] = 1

\* C10: in a Run that completes within the timeout the Report's agent_outputs
\* has exactly the six declared keys, whatever keys the final state holds.
C10_ExactlySixKeys ==
    \A r \in Runs :
        run_status[r] = "completed" =>
            DOMAIN report[r].agent_outputs
                = {"documents", "bill_data", "discharge_data", "claim_data",
                   "validation_results", "claim_decision"}

C10_Witness ==
    \E r \in Runs :
        /\ run_status[r] = "completed"
        /\ "claim_decision" \notin DOMAIN sessions[r]
        /\ report[r].agent_outputs["claim_decision"] = None

\* C11: result assembly is total and pass-through.  For any final state
\* _create_final_response returns (the reading statement is always enabled),
\* agent_outputs[k] is the state's value for k, unchanged, when k is present
\* and None when it is absent, and raw_session_state is the whole final
\* state, unchanged.
C11_AssemblyPassThrough ==
    \A r \in Runs :
        /\ pc[r] = "get_session" => ENABLED Complete(r)
        /\ pc[r] # "raised"
        /\ run_status[r] = "completed" =>
               /\ DOMAIN report[r].agent_outputs
                      = {"documents", "bill_data", "discharge_data", "claim_data",
                         "validation_results", "claim_decision"}
               /\ \A k \in DOMAIN report[r].agent_outputs :
                      report[r].agent_outputs[k]
                          = IF k \in DOMAIN sessions[r] THEN sessions[r][k]
                            ELSE [py |-> "None"]
               /\ report[r].raw_session_state = sessions[r]

C11_Witness ==
    \E r \in Runs :
        /\ run_status[r] = "completed"
        /\ DOMAIN sessions[r] = {"documents", "validation_results", "temp:scratch"}
        /\ sessions[r]["documents"] = [py |-> "str"]
        /\ sessions[r]["validation_results"] = None
        /\ report[r].agent_outputs["documents"] = [py |-> "str"]
        /\ report[r].agent_outputs["claim_decision"] = None
        /\ "temp:scratch" \in DOMAIN report[r].raw_session_state

\* C12: concurrent Runs on the one service are independent.  The state a
\* Run's Report is assembled from holds, under each key, only the payload
\* that Run's own stage of that key has stored, and a step of one Run leaves
\* the session, the input and the Report of every other Run as they were.
C12_OwnValuesOnly ==
    \A r \in DOMAIN pc :
        /\ r \in DOMAIN sessions =>
               \A k \in DOMAIN sessions[r] :
                   \E a \in Agents :
                       /\ stage[r][a] = "done"
                       /\ sessions[r][k].by = a
        /\ run_status[r] = "completed" =>
               /\ r \in DOMAIN sessions
               /\ report[r].raw_session_state = sessions[r]

C12_NoForeignWrite ==
    \A r \in DOMAIN pc :
        (pc'[r] = pc[r] /\ stage'[r] = stage[r] /\ pos'[r] = pos[r]) =>
            /\ report'[r] = report[r]
            /\ content'[r] = content[r]
            /\ r \in DOMAIN sessions =>
                   (r \in DOMAIN sessions' /\ sessions'[r] = sessions[r])
            /\ r \notin DOMAIN sessions => r \notin DOMAIN sessions'

C12_RunsIndependent == []C12_OwnValuesOnly /\ [][C12_NoForeignWrite]_vars

\* Two Runs are inside the parallel group at once, each with part of its
\* outputs stored.
C12_Witness ==
    /\ pc[1] = "run_async" /\ pc[2] = "run_async"
    /\ stage[1]["BillProcessingAgent"] = "done"
    /\ stage[1]["ClaimDataAgent"] = "running"
    /\ stage[2]["DischargeProcessingAgent"] = "done"
    /\ stage[2]["BillProcessingAgent"] = "running"
    /\ "bill_data" \in DOMAIN sessions[1]
    /\ "bill_data" \notin DOMAIN sessions[2]

\* C13 (as stated): once process_claim has returned, on the success, the
\* timeout and the failure path alike, the session created for the run no
\* longer exists in the session service, so the sessions retained are at
\* most those of the runs still in progress.
C13_SessionDiscarded ==
    /\ \A r \in Runs : pc[r] \in {"returned", "raised"} => r \notin DOMAIN sessions
    /\ Cardinality(DOMAIN sessions)
           <= Cardinality({r \in Runs : pc[r] \in {"create_session", "run_async",
                                                    "get_session"}})

\* C14: a Run's lifecycle is one-way, created -> running -> exactly one of
\* completed, timed_out, failed.  A terminal status never changes and is
\* reported once, nothing of the Run moves after it (when completion and the
\* timeout race, the first one wins and the other never happens), and the
\* pipeline is never retried or resumed: the element index never goes back
\* and a stage that has started never starts again.
C14_Terminal == {"completed", "timed_out", "failed"}

C14_Step ==
    \A r \in Runs :
        /\ \/ run_status'[r] = run_status[r]
           \/ run_status[r] = "created" /\ run_status'[r] = "running"
           \/ run_status[r] = "running" /\ run_status'[r] \in C14_Terminal
        /\ run_status[r] \in C14_Terminal =>
               /\ pc'[r] = pc[r]
               /\ report'[r] = report[r]
               /\ returned'[r] = returned[r]
               /\ stage'[r] = stage[r]
               /\ pos'[r] = pos[r]
        /\ pos'[r] >= pos[r]
        /\ \A a \in Agents :
               /\ stage[r][a] # "pending" => stage'[r][a] # "pending"
               /\ stage[r][a] \notin {"pending", "running"} => stage'[r][a] = stage[r][a]

C14_OneOutcome ==
    \A r \in Runs :
        /\ returned[r] <= 1
        /\ (run_status[r] \in C14_Terminal) <=> (returned[r] = 1)
        /\ (run_status[r] \in C14_Terminal) <=> (pc[r] = "returned")

C14_OneWayLifecycle == []C14_OneOutcome /\ [][C14_Step]_vars

\* The workflow has finished and the Report of the completed Run is out,
\* at a point where the timer was still armed one step earlier.
C14_Witness ==
    \E r \in Runs :
        /\ run_status[r] = "completed"
        /\ returned[r] = 1
        /\ pos[r] = Len(sub_agents) + 1
        /\ report[r].workflow_status = "completed"

\* C15 (as stated): claim_decision is held by the state only once the last
\* pipeline element has stored it, after validation_results was merged, the
\* Report carries it unmodified, and a Run that completes normally has
\* written it (exactly once).
C15_DecisionWrittenOnce ==
    \A r \in Runs :
        /\ (r \in DOMAIN sessions /\ "claim_decision" \in DOMAIN sessions[r]) =>
               /\ stage[r]["ClaimDecisionAgent"] = "done"
               /\ pos[r] >= Len(sub_agents)
               /\ "validation_results" \in DOMAIN sessions[r]
               /\ sessions[r]["claim_decision"].by = "ClaimDecisionAgent"
        /\ run_status[r] = "completed" =>
               /\ "claim_decision" \in DOMAIN sessions[r]
               /\ report[r].agent_outputs["claim_decision"]
                      = sessions[r]["claim_decision"]

C17_Reads(a) ==
    CASE a = "DocumentAgent"   -> {}
      [] a = "ValidationAgent" -> {"documents", "bill_data", "discharge_data",
                                   "claim_data"}
      [] a = "ClaimDecisionAgent" -> {"documents", "bill_data", "discharge_data",
                                      "claim_data", "validation_results"}
      [] OTHER -> {"documents"}

C17_KeysPresentAtStart ==
    \A r \in Runs : \A a \in Agents :
        stage[r][a] \in {"running", "done", "empty"} =>
            /\ r \in DOMAIN sessions
            /\ C17_Reads(a) \subseteq DOMAIN sessions[r]

C17_NeverDeleted ==
    \A r \in DOMAIN sessions :
        /\ r \in DOMAIN sessions'
        /\ DOMAIN sessions[r] \subseteq DOMAIN sessions'[r]

C17_NoReadBeforeWrite == []C17_KeysPresentAtStart /\ [][C17_NeverDeleted]_vars

C17_Witness ==
    \E r \in Runs :
        /\ stage[r]["ClaimDecisionAgent"] = "running"
        /\ stage[r]["ValidationAgent"] = "done"
        /\ DOMAIN sessions[r] = {"documents", "bill_data", "discharge_data",
                                 "claim_data", "validation_results"}

\* C18: the members of the parallel group read only documents, which no
\* sibling writes, and write the distinct keys bill_data, discharge_data and
\* claim_data.  So at every moment each of these keys holds its own member's
\* output or nothing, documents is untouched, and whatever the order in
\* which the members finished, the state after the group is the one
\* function of their outputs.
C18_MemberKey ==
    [BillProcessingAgent      |-> "bill_data",
     DischargeProcessingAgent |-> "discharge_data",
     ClaimDataAgent           |-> "claim_data"]

C18_FanOutConfluent ==
    \A r \in Runs :
        /\ \A a \in DOMAIN C18_MemberKey :
               /\ instruction_keys(a) = {"documents"}
               /\ stage[r][a] = "done" =>
                      /\ C18_MemberKey[a] \in DOMAIN sessions[r]
                      /\ sessions[r][C18_MemberKey[a]].by = a
               /\ (stage[r][a] # "done" /\ r \in DOMAIN sessions) =>
                      C18_MemberKey[a] \notin DOMAIN sessions[r]
        /\ (/\ pos[r] = 3
            /\ stage[r]["ValidationAgent"] = "pending"
            /\ \A a \in DOMAIN C18_MemberKey : stage[r][a] = "done") =>
               sessions[r] =
                   [documents      |-> [status |-> "n/a", by |-> "DocumentAgent"],
                    bill_data      |-> [status |-> "n/a", by |-> "BillProcessingAgent"],
                    discharge_data |-> [status |-> "n/a",
                                        by |-> "DischargeProcessingAgent"],
                    claim_data     |-> [status |-> "n/a", by |-> "ClaimDataAgent"]]

\* The group is over, every member having stored its output.
C18_Witness ==
    \E r \in Runs :
        /\ pos[r] = 3
        /\ pc[r] = "run_async"
        /\ \A a \in DOMAIN C18_MemberKey : stage[r][a] = "done"
        /\ stage[r]["ValidationAgent"] = "pending"
        /\ DOMAIN sessions[r] = {"documents", "bill_data", "discharge_data",
                                 "claim_data"}

C20_SameInitialInput ==
    \A r1, r2 \in DOMAIN pc :
        (/\ files[r1] = files[r2]
         /\ content[r1] # None
         /\ content[r2] # None) =>
            content[r1] = content[r2]

\* C21: for every list of N per-file results the blob _format_input_text
\* builds states N in its header and has exactly N document sections, in the
\* order of the list, the i-th headed by i and the i-th filename; a result
\* of status success contributes its text and any other result the error
\* marker, so no file is dropped.
C21_OneSectionPerFile ==
    \A r \in Runs :
        content[r] # [py |-> "None"] =>
            /\ content[r].ndocuments = Len(processed_files[r])
            /\ DOMAIN content[r].sections = 1..Len(processed_files[r])
            /\ \A i \in DOMAIN content[r].sections :
                   /\ content[r].sections[i].index = i
                   /\ content[r].sections[i].filename = processed_files[r][i].filename
                   /\ content[r].sections[i].body
                          = IF processed_files[r][i].status = "success"
                            THEN processed_files[r][i].text_content
                            ELSE <<[page |-> 0, kind |-> "[Error]"]>>

C21_Witness ==
    \E r \in Runs :
        /\ content[r] # [py |-> "None"]
        /\ Len(processed_files[r]) >= 2
        /\ processed_files[r][1].status = "failed"
        /\ processed_files[r][2].status = "success"
        /\ content[r].sections[1].body = <<[page |-> 0, kind |-> "[Error]"]>>
        /\ content[r].sections[2].body = processed_files[r][2].text_content

\* C22: a POST /process-claim that carries at least one file is answered
\* with HTTP 200 or HTTP 500 and nothing else: 500 exactly when the service
\* was not initialised, and then the coordinator is never invoked; 200
\* otherwise, validation errors, extraction failures and timeouts included.
C22_Only200Or500 ==
    \A r \in Runs :
        /\ pc[r] # "raised"
        /\ main_agent = [py |-> "None"] => pc[r] \in {"idle", "returned"}
        /\ pc[r] = "returned" =>
               /\ report[r].status_code \in {200, 500}
               /\ (report[r].status_code = 500) <=> (main_agent = [py |-> "None"])

\* The batch holds a file that is not a PDF: the 400 of validate_files is
\* answered as a 200.
C22_Witness ==
    \E r \in Runs :
        /\ pc[r] = "returned"
        /\ validate_files(files[r]).cls = "HTTPException"
        /\ report[r].status_code = 200
        /\ report[r].body.claim_decision.status = "rejected"

\* C25: in the packaged coordinator every failure of process_claim, the
\* outer timeout (a 504 HTTPException raised inside it) included, is
\* returned as a normal response: no documents, validation_score 0.0 and one
\* discrepancy carrying the exception's text, claim decision rejected with
\* confidence_score 1.0 and a reason carrying the same text; no exception
\* reaches the caller.
C25_FailureIsResponse ==
    \A r \in Runs :
        /\ run_status[r] # "raised" \/ main_agent = [py |-> "None"]
        /\ run_status[r] = "failed" =>
               LET b      == report[r].body
                   detail == SubSeq(b.claim_decision.reason, 2,
                                    Len(b.claim_decision.reason))
                   pe     == process_files(files[r]).exc
               IN  /\ report[r].status_code = 200
                   /\ b.documents = {}
                   /\ b.validation.validation_score = "0.0"
                   /\ b.validation.discrepancies = << <<"Error:">> \o detail >>
                   /\ b.claim_decision.status = "rejected"
                   /\ b.claim_decision.confidence_score = "1.0"
                   /\ b.claim_decision.reason[1] = "Processing error:"
                   /\ detail # <<>>
                   /\ pe.cls # "none" => detail = pe.msg
                   /\ pe.cls = "none" => detail[1] \in {"500:", "504:"}

\* The outer timeout fired.
C25_Witness ==
    \E r \in Runs :
        /\ run_status[r] = "failed"
        /\ report[r].status_code = 200
        /\ report[r].body.claim_decision.reason[2] = "504:"

\* C26: the packaged _parse_agent_results never raises: once the workflow
\* has returned a final state the run completes with a 200, the returned
\* status is one of approved, rejected, pending, and when the decision parser
\* raised (a status outside the three, a confidence_score that is not a
\* number) the response is the fallback: no documents, validation_score 0.0,
\* decision pending with confidence_score 0.0.
C26_ParseNeverRaises ==
    \A r \in Runs :
        (pc[r] = "returned" /\ session_id(r) \in DOMAIN sessions) =>
            LET st == sessions[session_id(r)]
                d  == _parse_claim_decision(st, [py |-> "None"])
                b  == report[r].body
            IN  /\ DOMAIN st # {} => run_status[r] = "completed"
                /\ run_status[r] = "completed" =>
                       /\ report[r].status_code = 200
                       /\ b.claim_decision.status \in {"approved", "rejected", "pending"}
                       /\ d.exc.cls # "none" =>
                              /\ b.documents = {}
                              /\ b.validation.validation_score = "0.0"
                              /\ b.claim_decision.status = "pending"
                              /\ b.claim_decision.confidence_score = "0.0"

\* The stored decision is a dict whose status is "denied".
C26_Witness ==
    \E r \in Runs :
        /\ run_status[r] = "completed"
        /\ session_id(r) \in DOMAIN sessions
        /\ "claim_decision" \in DOMAIN sessions[session_id(r)]
        /\ sessions[session_id(r)]["claim_decision"] =
               [py |-> "dict", d |-> [status |-> "denied", confidence_score |-> "0.9"]]
        /\ report[r].body.claim_decision.confidence_score = "0.0"

\* The first truthy value of the final state under claim_decision, decision,
\* ClaimDecisionAgent, final_decision, in that order; None when there is none.
C30_Stored(st) ==
    IF Truthy(Get(st, "claim_decision")) THEN Get(st, "claim_decision")
    ELSE IF Truthy(Get(st, "decision")) THEN Get(st, "decision")
    ELSE IF Truthy(Get(st, "ClaimDecisionAgent")) THEN Get(st, "ClaimDecisionAgent")
    ELSE IF Truthy(Get(st, "final_decision")) THEN Get(st, "final_decision")
    ELSE [py |-> "None"]

C30_Keyword(words) ==
    IF \E i \in DOMAIN words : words[i] = "approve" THEN "approved"
    ELSE IF \E i \in DOMAIN words : words[i] \in {"reject", "deny"} THEN "rejected"
    ELSE "pending"

C30_Step ==
    \A r \in Runs : \A fr \in FinalResponses :
        ( /\ pc[r] = "run_async"
          /\ session_id(r) \in DOMAIN sessions'
          /\ PackagedWorkflowReturns(r, sessions'[session_id(r)], fr) ) =>
            LET v   == C30_Stored(sessions'[session_id(r)])
                dec == report'[r].body.claim_decision
            IN  /\ v.py = "str" => dec.status = C30_Keyword(v.text)
                /\ v.py = "None" =>
                       dec.status = IF fr.py = "str" THEN C30_Keyword(fr.text)
                                    ELSE "pending"

\* C30: the packaged _parse_claim_decision maps a decision stored as text to
\* a status by keyword with a fixed precedence ("approve" gives approved even
\* when "reject" or "deny" is present too; otherwise "reject" or "deny" gives
\* rejected; otherwise pending); the stored decision is the first truthy
\* value under claim_decision, decision, ClaimDecisionAgent, final_decision,
\* in that order; only when none of them is truthy is the final response's
\* text, and then the default pending, used.
C30_KeywordPrecedence == [][C30_Step]_vars

\* An empty claim_decision is passed over for a text under "decision" that
\* holds all three keywords.
C30_Witness ==
    \E r \in Runs :
        /\ run_status[r] = "completed"
        /\ session_id(r) \in DOMAIN sessions
        /\ DOMAIN sessions[session_id(r)] = {"claim_decision", "decision"}
        /\ sessions[session_id(r)]["claim_decision"] = [py |-> "str", text |-> <<>>]
        /\ sessions[session_id(r)]["decision"] =
               [py |-> "str", text |-> <<"approve", "reject", "deny">>]
        /\ report[r].body.claim_decision.status = "approved"

\* C23: file validation accepts PDF files only: a batch in which some
\* file's lower-cased extension is not exactly "pdf" (no extension and a
\* fragment of "pdf" included) is rejected by validate_files, so text
\* extraction is reached only by batches whose files all end in ".pdf".
C23_PdfOnly ==
    \A r \in Runs :
        /\ (\E i \in DOMAIN files[r] : files[r][i].ext # <<"p", "d", "f">>) =>
               /\ pc[r] \notin {"create_session", "run_async"}
               /\ processed_files[r] = <<>>
        /\ (pc[r] = "returned"
               /\ \E i \in DOMAIN files[r] : files[r][i].ext # <<"p", "d", "f">>) =>
               report[r].error[1] = "400:"

\* C24: text extraction tolerates page-level failures: when a page of a PDF
\* raises, the pages that gave text are kept in page order, the failing page
\* gets an "(extraction failed)" marker, and the file is reported with status
\* success.
C24_PageFailureTolerated ==
    \A r \in Runs : \A i \in DOMAIN processed_files[r] :
        LET f == files[r][i]
            e == processed_files[r][i]
        IN  (\E n \in DOMAIN f.pages : f.pages[n] = "raise") =>
                /\ e.status = "success"
                /\ \A n \in DOMAIN f.pages :
                       /\ f.pages[n] = "raise" =>
                              \E k \in DOMAIN e.text_content :
                                  e.text_content[k] = [page |-> n, kind |-> "(extraction failed)"]
                       /\ f.pages[n] = "text" =>
                              \E k \in DOMAIN e.text_content :
                                  e.text_content[k] = [page |-> n, kind |-> "text"]
                /\ \A k \in DOMAIN e.text_content : \A l \in DOMAIN e.text_content :
                       k < l => e.text_content[k].page < e.text_content[l].page

\* A file whose first page gives text and whose second page raises.
C24_Witness ==
    \E r \in Runs : \E i \in DOMAIN processed_files[r] :
        /\ files[r][i].pages[1] = "text"
        /\ files[r][i].pages[2] = "raise"
        /\ processed_files[r][i].status = "success"
        /\ Len(processed_files[r][i].text_content) = 2

\* C28: process_files either raises or returns one entry per input file, in
\* input order, every entry with status "success": no returned list holds a
\* "failed" entry, and the pipeline is never started for a batch in which a
\* file's extraction failed.
C28_AllOrNothing ==
    \A r \in Runs :
        /\ pc[r] \in {"create_session", "run_async"} =>
               /\ Len(processed_files[r]) = Len(files[r])
               /\ \A i \in DOMAIN files[r] :
                      /\ processed_files[r][i].filename = FileName(files[r][i])
                      /\ processed_files[r][i].status = "success"
        /\ \A i \in DOMAIN processed_files[r] : processed_files[r][i].status # "failed"
        /\ (\E i \in DOMAIN files[r] : ~files[r][i].reader_ok) =>
               /\ pc[r] \notin {"create_session", "run_async"}
               /\ processed_files[r] = <<>>
               /\ session_id(r) \notin DOMAIN sessions

\* A batch of two different files is extracted, one entry each, and the
\* workflow is entered.
C28_Witness ==
    \E r \in Runs :
        /\ pc[r] = "run_async"
        /\ Len(files[r]) = 2
        /\ files[r][1] # files[r][2]
        /\ Len(processed_files[r]) = 2

\* C27: on the success path workflow_status is "completed" exactly when the
\* final state holds at least one key and "no_outputs" exactly when it is
\* empty (or the session is missing), whatever the keys are: a state without
\* claim_decision, or without any of the six declared keys, still gives
\* "completed".
C27_CompletedIffNonEmpty ==
    \A r \in Runs :
        run_status[r] = "completed" =>
            LET final_state == IF session_id(r) \in DOMAIN sessions
                               THEN sessions[session_id(r)] ELSE <<>>
            IN  /\ report[r].workflow_status \in {"completed", "no_outputs"}
                /\ (report[r].workflow_status = "completed")
                       <=> (DOMAIN final_state # {})
                /\ (report[r].workflow_status = "no_outputs")
                       <=> (DOMAIN final_state = {})

\* The final state holds one key, and it is none of the six declared ones.
C27_Witness ==
    \E r \in Runs :
        /\ run_status[r] = "completed"
        /\ DOMAIN sessions[session_id(r)] = {"temp:scratch"}
        /\ report[r].workflow_status = "completed"
        /\ \A k \in DOMAIN report[r].agent_outputs :
               report[r].agent_outputs[k] = [py |-> "None"]

\* C29: once the outer timeout has fired and the error Report of a Run has
\* been returned, no stage of that Run executes further and no further write
\* is merged into its Shared State: when process_claim returns no stage is
\* running any more, and from then on the Run's stages, its element index
\* and its session state never change.
C29_Quiet ==
    \A r \in Runs :
        run_status[r] = "timed_out" =>
            /\ pc[r] = "returned"
            /\ report[r].error = <<"timeout">>
            /\ \A a \in Agents : stage[r][a] # "running"

C29_Step ==
    \A r \in Runs :
        run_status[r] = "timed_out" =>
            /\ stage'[r] = stage[r]
            /\ pos'[r] = pos[r]
            /\ session_id(r) \in DOMAIN sessions =>
                   /\ session_id(r) \in DOMAIN sessions'
                   /\ sessions'[session_id(r)] = sessions[session_id(r)]
            /\ session_id(r) \notin DOMAIN sessions => session_id(r) \notin DOMAIN sessions'

C29_NothingAfterTimeout == []C29_Quiet /\ [][C29_Step]_vars

\* The timeout fired while one stage of the parallel group had written and
\* another was still running.
C29_Witness ==
    \E r \in Runs :
        /\ run_status[r] = "timed_out"
        /\ pos[r] = 2
        /\ \E a \in Agents : stage[r][a] = "cancelled"
        /\ \E a \in sub_agents[2] : stage[r][a] = "done"
        /\ "documents" \in DOMAIN sessions[session_id(r)]

====
